---- MODULE Spec2Model ----
(***************************************************************************)
(* A polling session of ArgoApiClient.streamWorkflowEvents                 *)
(* (src/src/api/ArgoApiClient.ts, lines 280-467): the closure state of one *)
(* call, its three kinds of timers, the asynchronous fetchData loop and    *)
(* the stop function it returns.  JavaScript runs one handler at a time,   *)
(* so every action below is one whole handler: a timer callback, the       *)
(* continuation of an await, or a call of stop() by the subscriber.        *)
(***************************************************************************)
EXTENDS Integers, Sequences, FiniteSets, TLC

\* ------------------------------------------------------------- bounds
\* successful polls (parsed snapshots) a behaviour may contain
MaxPolls == 3
\* largest version token the backend hands out
MaxVersion == 3
\* calls of stop() by the subscriber that are counted
MaxStops == 2
\* successful polls, and version tokens, where the interval is followed
MaxBackoffPolls == 9
MaxBackoffVersion == 9
\* consecutive malformed response bodies that are counted
MaxMalformed == 6
\* successful polls of each session of a client, and the version tokens
\* they are polled against
MaxSessionPolls == 2
MaxSessionVersion == 2
\* calls of watch on one WorkflowWatcher
MaxWatches == 3
\* calls of streamWorkflowEvents on one WorkflowEventStream
MaxStreams == 2
\* workflows in the listing deleteAllWorkflows is given
MaxListed == 3
\* polls of the subscription of the component, and the version tokens they
\* are polled against
MaxViewPolls == 2
MaxViewVersion == 3

\* ------------------------------------------------ program constants
InitialInterval == 2000
MinIntervalMs == 1000
MaxIntervalMs == 10000
MAX_ERRORS == 5

\* ------------------------------------------------------ input domain
\* The workflows of the namespace in the order the list response gives
\* them, the nodes of each in the key order of status.nodes, and the type
\* of each node.
Workflows == <<"wf1", "wf2">>
WfNames == {Workflows[i] : i \in DOMAIN Workflows}
WfNodes == [wf1 |-> <<"n1", "n2">>, wf2 |-> <<"n3">>]
NodeType == [n1 |-> "Pod", n2 |-> "DAG", n3 |-> "Container"]
Nodes == DOMAIN NodeType
LeafNodes == {n \in Nodes : NodeType[n] \in {"Pod", "Container"}}
NodePhases == {"Pending", "Running", "Succeeded", "Failed", "Error"}
TerminalPhases == {"Succeeded", "Failed", "Error"}
\* 0 stands for an absent (undefined or empty) resourceVersion / cache entry
NoVersion == 0
\* The subscribers of one client: each calls streamWorkflowEvents once, so
\* that a session has one other session beside or before it.
Subscribers == <<"first", "second">>

VARIABLES
  \* closure state of streamWorkflowEvents
  isFetching, aborted, latestResourceVersions, refreshInterval,
  processedNodes, errorCount, connectionTimeoutId,
  \* the runtime: timers and pending promises
  connTimer, hbTimer, pollTimers, lastTimeout, fetching, parsing,
  \* the backend
  rv, nodePhase,
  \* observation of what the handlers did
  delivered, polled, tick, stopped, stopCalls, polls,
  notices, seenNonTerminal, seenTerminal,
  \* history of the failures: fetches failed since the last fetch that
  \* resolved OK, malformed bodies in a row, fatal notifications delivered
  failedFetches, malformed, fatals,
  \* one ArgoApiClient: the closures its streamWorkflowEvents calls have
  \* created, and for each its polls so far, what its last poll delivered,
  \* and what a session alone on the client would hold and have delivered
  sessions, trace,
  \* one WorkflowWatcher: its eventSource field (0: null), the EventSource
  \* objects that are open, and the number constructed so far
  eventSource, sources, watches,
  \* for each EventSource constructed what its handlers have done, and
  \* what the last message handler or unsubscribe function did, and for
  \* which EventSource
  streams, dispatch,
  \* one WorkflowEventStream: its eventSource field (0: null), the
  \* EventSource objects that are open, the number constructed so far, and
  \* what its last message handler did, and for which EventSource
  eventStream,
  \* one WorkflowManager: the node and the log it is given, the polls of
  \* its subscription with the cache and the processed set of the session,
  \* the callbacks of the last poll, the getWorkflowLogs calls its stream
  \* handler awaits, its taskOutputs state, and its running
  \* fetchWorkflowTaskOutputs call
  input, viewPolls, viewCache, viewProcessed, events, logFetches,
  taskOutputs, outputsCall,
  \* the order of the tasks of a workflow: the dependency graph and the raw
  \* key order given, the in-degrees, the ready queue and the output of the
  \* resolver, its result, and the sequences presented
  dag, inDegree, queue, order, result, presented, rendered,
  \* one call of deleteAllWorkflows: the await it stands at, the names of
  \* response.items ("": no metadata.name), the item whose delete is
  \* awaited, result.deleted, result.errors, and the names a DELETE was
  \* sent for
  deletion

progVars == <<isFetching, aborted, latestResourceVersions, refreshInterval,
              processedNodes, errorCount, connectionTimeoutId>>
runVars == <<connTimer, hbTimer, pollTimers, lastTimeout, fetching, parsing>>
envVars == <<rv, nodePhase>>
histVars == <<polls, notices, seenNonTerminal, seenTerminal>>
errVars == <<failedFetches, malformed, fatals>>
\* the session that is followed handler by handler
soloVars == <<progVars, runVars, delivered, polled, tick, stopped,
              stopCalls, histVars, errVars>>
clientVars == <<sessions, trace>>
watcherVars == <<eventSource, sources, watches, streams, dispatch,
                 eventStream>>
viewVars == <<input, viewPolls, viewCache, viewProcessed, events,
              logFetches, taskOutputs, outputsCall>>
orderVars == <<dag, inDegree, queue, order, result, presented, rendered>>
vars == <<soloVars, envVars, clientVars, watcherVars, viewVars, orderVars,
          deletion>>

\* ----------------------------------------------- interval arithmetic
\* refreshInterval is a JavaScript number; the model keeps it as an exact
\* fraction num/den in lowest terms (den a power of 5).
RECURSIVE GCD(_, _)
GCD(a, b) == IF b = 0 THEN a ELSE GCD(b, a % b)

Frac(n, d) == LET g == GCD(n, d) IN [num |-> n \div g, den |-> d \div g]
Whole(n) == [num |-> n, den |-> 1]
\* r * p/q
Times(r, p, q) == Frac(r.num * p, r.den * q)
\* r < n and r > n for a whole number n
Below(r, n) == r.num < n * r.den
Above(r, n) == r.num > n * r.den

\* the shrinking without its floor: refreshInterval * 0.8
ShrinkUnfloored(r) == Times(r, 4, 5)

\* Math.max(1000, refreshInterval * 0.8)
Shrink(r) ==
  LET x == Times(r, 4, 5) IN IF Below(x, MinIntervalMs) THEN Whole(MinIntervalMs) ELSE x

\* the growth without its ceiling: refreshInterval * 1.2
GrowUncapped(r) == Times(r, 6, 5)

\* Math.min(10000, refreshInterval * 1.2)
Grow(r) ==
  LET x == Times(r, 6, 5) IN IF Above(x, MaxIntervalMs) THEN Whole(MaxIntervalMs) ELSE x

NextInterval(r, hasUpdates) == IF hasUpdates THEN Shrink(r) ELSE Grow(r)

\* setTimeout(fetchData, refreshInterval * 2)
RetryDelay(r) == Times(r, 2, 1)


\* ---------------------------------------------------- the backend
WfOf(n) == CHOOSE w \in WfNames : \E j \in DOMAIN WfNodes[w] : WfNodes[w][j] = n

\* Phases a node may move to: Pending -> Running -> terminal, never back.
LaterPhases(p) ==
  CASE p = "Pending" -> {"Running"} \cup TerminalPhases
    [] p = "Running" -> TerminalPhases
    [] OTHER -> {}

\* One item of the list response: workflow.metadata and workflow.status.nodes.
\* blank = "name" drops metadata.name, blank = "version" drops
\* metadata.resourceVersion.
Item(w, blank) ==
  [name |-> IF blank = "name" THEN "" ELSE w,
   resourceVersion |-> IF blank = "version" THEN NoVersion ELSE rv[w],
   nodes |-> [j \in DOMAIN WfNodes[w] |->
                [id |-> WfNodes[w][j],
                 type |-> NodeType[WfNodes[w][j]],
                 phase |-> nodePhase[WfNodes[w][j]]]]]

\* data.items: the workflows that exist, in list order; the workflow
\* blanked (if any) misses the field blank names.
RECURSIVE ItemsFrom(_, _, _)
ItemsFrom(i, blanked, blank) ==
  IF i > Len(Workflows) THEN <<>>
  ELSE LET w == Workflows[i]
           rest == ItemsFrom(i + 1, blanked, blank)
       IN IF rv[w] = NoVersion THEN rest
          ELSE <<Item(w, IF w = blanked THEN blank ELSE "none")>> \o rest

\* ------------------------------------------- fetchData: the delivery loop
\* type: latestResourceVersions[name] ? 'MODIFIED' : 'ADDED', read from the
\* cache as it is when the event object is built (line 387, after line 380).
EventType(cache, name) == IF cache[name] # NoVersion THEN "MODIFIED" ELSE "ADDED"

\* lines 397-399: a leaf node that has finished and was not processed yet
IsLeaf(node) == node.type = "Pod" \/ node.type = "Container"
IsFinished(node) == node.phase = "Succeeded" \/ node.phase = "Failed"
\* a filter without the test of the node type
IsNewCompletionOfAnyType(node, processed) ==
  IsFinished(node) /\ node.id \notin processed

IsNewCompletion(node, processed) ==
  IsLeaf(node) /\ IsFinished(node) /\ node.id \notin processed

\* lines 394-407: Object.entries(workflow.status.nodes).forEach
RECURSIVE ScanNodes(_, _, _, _)
ScanNodes(nodes, j, acc, ev) ==
  IF j > Len(nodes) THEN acc
  ELSE LET node == nodes[j]
       IN IF IsNewCompletion(node, acc.processed)
          THEN ScanNodes(nodes, j + 1,
                 [processed |-> acc.processed \cup {node.id},
                  out |-> Append(acc.out, [ev EXCEPT !.node = node.id])], ev)
          ELSE ScanNodes(nodes, j + 1, acc, ev)

\* line 376 and line 378
HasIdentity(wf) == wf.name # "" /\ wf.resourceVersion # NoVersion
IsChanged(cache, wf) ==
  cache[wf.name] = NoVersion \/ cache[wf.name] # wf.resourceVersion

\* lines 372-413: for (const workflow of workflows)
RECURSIVE ProcessItems(_, _, _)
ProcessItems(items, i, acc) ==
  IF i > Len(items) THEN acc
  ELSE LET wf == items[i]
       IN IF HasIdentity(wf) /\ IsChanged(acc.cache, wf)
          THEN LET cache2 == [acc.cache EXCEPT ![wf.name] = wf.resourceVersion]
                   ev == [cb |-> "event", wf |-> wf.name,
                          type |-> EventType(cache2, wf.name), node |-> "-"]
                   scanned == ScanNodes(wf.nodes, 1,
                                [processed |-> acc.processed, out |-> acc.out], ev)
               IN ProcessItems(items, i + 1,
                    [cache |-> cache2, processed |-> scanned.processed,
                     hasUpdates |-> TRUE, out |-> Append(scanned.out, ev)])
          ELSE ProcessItems(items, i + 1, acc)

Deliver(items) ==
  ProcessItems(items, 1,
    [cache |-> latestResourceVersions, processed |-> processedNodes,
     hasUpdates |-> FALSE, out |-> <<>>])

\* The callbacks of one handler, each marked with whether stop() had
\* returned before it was invoked: already is whether stop() had returned
\* before the handler ran, stopAt the callback (0: none) inside which the
\* subscriber calls stop().
Marked(out, already, stopAt) ==
  [k \in DOMAIN out |->
     [cb |-> out[k].cb, wf |-> out[k].wf, type |-> out[k].type,
      node |-> out[k].node,
      afterStop |-> already \/ (stopAt > 0 /\ k > stopAt)]]

Min(a, b) == IF a < b THEN a ELSE b

\* ------------------------------------------------------- observations
NoCache == [w \in WfNames |-> NoVersion]
NoPoll == [done |-> FALSE, items |-> <<>>, before |-> NoCache]
NoTick == [did |-> "none", afterStop |-> FALSE]
NoTimeout == [kind |-> "none", delay |-> Whole(0)]
Quiet == delivered' = <<>> /\ polled' = NoPoll /\ tick' = NoTick

Times_n(out, n) == Cardinality({k \in DOMAIN out : out[k].node = n})
Callback(cb, type) == [cb |-> cb, wf |-> "-", type |-> type, node |-> "-"]

\* what taskOutputs holds for a node name: nothing (Unset), a value, the
\* text `Error: ${message}`, or the text `Could not get logs: ${message}`
Unset == [kind |-> "unset", text |-> ""]
\* no component is mounted, no fetchWorkflowTaskOutputs call is running, no
\* getWorkflowLogs call is awaited
NoInput == [given |-> FALSE, params |-> <<>>, message |-> "", log |-> <<>>]
NoCall == [stage |-> "idle", newOutputs |-> Unset]
NoFetches == [p \in {"Succeeded", "Failed"} |-> 0]

\* an EventSource whose handlers have not run: the phase onUpdate had last,
\* whether it had a terminal one, the calls of onClose, and whether
\* onUpdate was called after a terminal update
NewStream == [last |-> "none", terminal |-> FALSE, closes |-> 0, late |-> FALSE]
NoDispatch == [source |-> 0, data |-> "", calls |-> <<>>]
\* a WorkflowEventStream after construction
NewEventStream ==
  [eventSource |-> 0, sources |-> {}, opened |-> 0, handled |-> NoDispatch]

\* the task names of a workflow, in alphabetical order
TaskNames == <<"A", "B", "C">>
TaskSet == {TaskNames[i] : i \in DOMAIN TaskNames}
NoDag == [given |-> FALSE, tasks |-> {}, deps |-> <<>>, keys |-> <<>>]
NoResult == [kind |-> "none", order |-> <<>>]

\* deleteAllWorkflows has not been called
NoDeletion ==
  [stage |-> "idle", items |-> <<>>, next |-> 0, deleted |-> 0,
   errors |-> <<>>, attempts |-> <<>>]

\* ------------------------------------------------------------ Init
\* The state when streamWorkflowEvents returns: both timers armed and the
\* first fetchData() call (line 451) suspended at its fetch.
Init ==
  /\ isFetching = TRUE
  /\ aborted = FALSE
  /\ latestResourceVersions = NoCache
  /\ refreshInterval = Whole(InitialInterval)
  /\ processedNodes = {}
  /\ errorCount = 0
  /\ connectionTimeoutId = "set"
  /\ connTimer = "pending"
  /\ hbTimer = "active"
  /\ pollTimers = 0
  /\ lastTimeout = NoTimeout
  /\ fetching = 1
  /\ parsing = 0
  /\ rv = [w \in WfNames |-> NoVersion]
  /\ nodePhase = [n \in Nodes |-> "Pending"]
  /\ delivered = <<>>
  /\ polled = NoPoll
  /\ tick = NoTick
  /\ stopped = FALSE
  /\ stopCalls = 0
  /\ polls = 0
  /\ notices = [n \in Nodes |-> 0]
  /\ seenNonTerminal = {}
  /\ seenTerminal = {}
  /\ failedFetches = 0
  /\ malformed = 0
  /\ fatals = 0
  /\ sessions = <<>>
  /\ trace = <<>>
  /\ eventSource = 0
  /\ sources = {}
  /\ watches = 0
  /\ streams = <<>>
  /\ dispatch = NoDispatch
  /\ eventStream = NewEventStream
  /\ input = NoInput
  /\ viewPolls = <<>>
  /\ viewCache = NoCache
  /\ viewProcessed = {}
  /\ events = <<>>
  /\ logFetches = NoFetches
  /\ taskOutputs = [n \in Nodes |-> Unset]
  /\ outputsCall = NoCall
  /\ dag = NoDag
  /\ inDegree = [t \in TaskSet |-> 0]
  /\ queue = <<>>
  /\ order = <<>>
  /\ result = NoResult
  /\ presented = <<>>
  /\ rendered = <<>>
  /\ deletion = NoDeletion

\* ------------------------------------------------------- the backend
\* The backend is read only when a response body is parsed, so its changes
\* are taken while a body is awaited.  A workflow is created with its first
\* version token; a later write moves the token on.
BackendBump(w, max) ==
  /\ parsing > 0
  /\ rv[w] < max
  /\ rv' = [rv EXCEPT ![w] = rv[w] + 1]
  /\ UNCHANGED <<progVars, runVars, nodePhase, delivered, polled, tick,
                 stopped, stopCalls, histVars, errVars,
                 clientVars, watcherVars, viewVars, orderVars, deletion>>

\* a write of the controller moves one node on and, as every write does,
\* gives the workflow a new version token
BackendAdvance(n, p, max) ==
  /\ parsing > 0
  /\ rv[WfOf(n)] # NoVersion
  /\ rv[WfOf(n)] < max
  /\ p \in LaterPhases(nodePhase[n])
  /\ nodePhase' = [nodePhase EXCEPT ![n] = p]
  /\ rv' = [rv EXCEPT ![WfOf(n)] = rv[WfOf(n)] + 1]
  /\ UNCHANGED <<progVars, runVars, delivered, polled, tick,
                 stopped, stopCalls, histVars, errVars,
                 clientVars, watcherVars, viewVars, orderVars, deletion>>

\* ------------------------------------------------------------ stop()
\* a stop that flips the flag instead of clearing it
StopFetchingToggles ==
  /\ isFetching' = ~isFetching
  /\ aborted' = TRUE
  /\ connTimer' = IF connectionTimeoutId # "null" /\ connTimer = "pending"
                  THEN "cleared" ELSE connTimer
  /\ hbTimer' = "cleared"

\* a stop that forgets clearInterval(heartbeatInterval)
StopFetchingLeavesHeartbeat ==
  /\ isFetching' = FALSE
  /\ aborted' = TRUE
  /\ connTimer' = IF connectionTimeoutId # "null" /\ connTimer = "pending"
                  THEN "cleared" ELSE connTimer
  /\ hbTimer' = hbTimer

\* lines 454-460: stopFetching
StopFetching ==
  /\ isFetching' = FALSE
  /\ aborted' = TRUE
  /\ connTimer' = IF connectionTimeoutId # "null" /\ connTimer = "pending"
                  THEN "cleared" ELSE connTimer
  /\ hbTimer' = "cleared"

StopCounted == stopped' = TRUE /\ stopCalls' = Min(stopCalls + 1, MaxStops)
NotStoppedHere == UNCHANGED <<stopped, stopCalls>>

\* the subscriber calls stop() (or unsubscribe()) between two handlers
Stop ==
  /\ StopFetching
  /\ StopCounted
  /\ Quiet
  /\ UNCHANGED <<latestResourceVersions, refreshInterval, processedNodes,
                 errorCount, connectionTimeoutId, pollTimers, lastTimeout,
                 fetching, parsing, envVars, histVars, errVars,
                 clientVars, watcherVars, viewVars, orderVars, deletion>>

\* ------------------------------------------------------------ timers
\* a connection timeout that reports and leaves isFetching as it is
ConnectionTimeoutKeepsFetching ==
  /\ connTimer = "pending"
  /\ connTimer' = "fired"
  /\ isFetching' = isFetching
  /\ delivered' = Marked(<<Callback("error", "timeout")>>, stopped, 0)
  /\ fatals' = Min(fatals + 1, 2)
  /\ polled' = NoPoll /\ tick' = NoTick
  /\ UNCHANGED <<aborted, latestResourceVersions, refreshInterval,
                 processedNodes, errorCount, connectionTimeoutId, hbTimer,
                 pollTimers, lastTimeout, fetching, parsing, envVars,
                 stopped, stopCalls, histVars, failedFetches, malformed,
                 clientVars, watcherVars, viewVars, orderVars, deletion>>

\* lines 309-314: the connection timeout fires
ConnectionTimeout ==
  /\ connTimer = "pending"
  /\ connTimer' = "fired"
  /\ isFetching' = FALSE
  /\ delivered' = Marked(<<Callback("error", "timeout")>>, stopped, 0)
  /\ fatals' = Min(fatals + 1, 2)
  /\ polled' = NoPoll /\ tick' = NoTick
  /\ UNCHANGED <<aborted, latestResourceVersions, refreshInterval,
                 processedNodes, errorCount, connectionTimeoutId, hbTimer,
                 pollTimers, lastTimeout, fetching, parsing, envVars,
                 stopped, stopCalls, histVars, failedFetches, malformed,
                 clientVars, watcherVars, viewVars, orderVars, deletion>>

\* a heartbeat that is sent only between two fetches
HeartbeatOnlyWhenIdle ==
  /\ hbTimer = "active"
  /\ fetching + parsing = 0
  /\ delivered' = Marked(<<Callback("heartbeat", "HEARTBEAT")>>, stopped, 0)
  /\ polled' = NoPoll /\ tick' = NoTick
  /\ UNCHANGED <<progVars, runVars, envVars, stopped, stopCalls, histVars,
                 errVars,
                 clientVars, watcherVars, viewVars, orderVars, deletion>>

\* lines 317-323: one period of the heartbeat interval elapses
Heartbeat ==
  /\ hbTimer = "active"
  /\ delivered' = Marked(<<Callback("heartbeat", "HEARTBEAT")>>, stopped, 0)
  /\ polled' = NoPoll /\ tick' = NoTick
  /\ UNCHANGED <<progVars, runVars, envVars, stopped, stopCalls, histVars,
                 errVars,
                 clientVars, watcherVars, viewVars, orderVars, deletion>>

\* a tick whose deferral (line 334) is not followed by the return of line
\* 335: it arms the timer and goes on to the fetch
PollTickDefersAndFetches(early, e) ==
  /\ pollTimers > 0
  /\ IF ~isFetching
     THEN /\ pollTimers' = pollTimers - 1
          /\ tick' = [did |-> "returned", afterStop |-> stopped]
          /\ UNCHANGED <<fetching, lastTimeout>>
     ELSE IF early
     THEN /\ pollTimers' = (pollTimers - 1) + 1
          /\ lastTimeout' = [kind |-> "defer", delay |-> Times(refreshInterval, e, 2)]
          /\ fetching' = fetching + 1
          /\ tick' = [did |-> "fetch", afterStop |-> stopped]
     ELSE /\ pollTimers' = pollTimers - 1
          /\ fetching' = fetching + 1
          /\ tick' = [did |-> "fetch", afterStop |-> stopped]
          /\ UNCHANGED lastTimeout
  /\ delivered' = <<>> /\ polled' = NoPoll
  /\ UNCHANGED <<progVars, connTimer, hbTimer, parsing, envVars, stopped,
                 stopCalls, histVars, errVars,
                 clientVars, watcherVars, viewVars, orderVars, deletion>>

\* a tick that arms the next timer when it starts its fetch, as a
\* setInterval would, instead of leaving that to the end of the delivery
PollTickRearms(early, e) ==
  /\ pollTimers > 0
  /\ IF ~isFetching
     THEN /\ pollTimers' = pollTimers - 1
          /\ tick' = [did |-> "returned", afterStop |-> stopped]
          /\ UNCHANGED <<fetching, lastTimeout>>
     ELSE IF early
     THEN /\ pollTimers' = (pollTimers - 1) + 1
          /\ lastTimeout' = [kind |-> "defer", delay |-> Times(refreshInterval, e, 2)]
          /\ tick' = [did |-> "deferred", afterStop |-> stopped]
          /\ UNCHANGED fetching
     ELSE /\ pollTimers' = pollTimers
          /\ fetching' = Min(fetching + 1, 2)
          /\ tick' = [did |-> "fetch", afterStop |-> stopped]
          /\ UNCHANGED lastTimeout
  /\ delivered' = <<>> /\ polled' = NoPoll
  /\ UNCHANGED <<progVars, connTimer, hbTimer, parsing, envVars, stopped,
                 stopCalls, histVars, errVars,
                 clientVars, watcherVars, viewVars, orderVars, deletion>>

\* lines 326-350: a poll timer fires and runs fetchData up to its await.
\* early: Date.now() - lastFetchTime is still below refreshInterval (the
\* timer delay is cut to whole milliseconds and the two clocks differ), the
\* time elapsed being (2 - e)/2 of the interval.
PollTick(early, e) ==
  /\ pollTimers > 0
  /\ IF ~isFetching
     THEN /\ pollTimers' = pollTimers - 1
          /\ tick' = [did |-> "returned", afterStop |-> stopped]
          /\ UNCHANGED <<fetching, lastTimeout>>
     ELSE IF early
     THEN /\ pollTimers' = (pollTimers - 1) + 1
          /\ lastTimeout' = [kind |-> "defer", delay |-> Times(refreshInterval, e, 2)]
          /\ tick' = [did |-> "deferred", afterStop |-> stopped]
          /\ UNCHANGED fetching
     ELSE /\ pollTimers' = pollTimers - 1
          /\ fetching' = fetching + 1
          /\ tick' = [did |-> "fetch", afterStop |-> stopped]
          /\ UNCHANGED lastTimeout
  /\ delivered' = <<>> /\ polled' = NoPoll
  /\ UNCHANGED <<progVars, connTimer, hbTimer, parsing, envVars, stopped,
                 stopCalls, histVars, errVars,
                 clientVars, watcherVars, viewVars, orderVars, deletion>>

\* ------------------------------------------------- fetchData, resumed
\* a catch block without the setTimeout of line 445
CatchWithoutRetry(err, stopIn) ==
  LET count == errorCount + 1
      exhausted == count >= MAX_ERRORS
      out == <<Callback("error", err)>> \o
             (IF exhausted THEN <<Callback("error", "exhausted")>> ELSE <<>>)
  IN /\ errorCount' = count
     /\ delivered' = Marked(out, stopped, IF stopIn THEN 1 ELSE 0)
     /\ IF stopIn
        THEN StopFetching /\ StopCounted
        ELSE /\ isFetching' = (isFetching /\ ~exhausted)
             /\ UNCHANGED <<aborted, connTimer, hbTimer>>
             /\ NotStoppedHere
     /\ UNCHANGED <<pollTimers, lastTimeout>>
     /\ fatals' = IF exhausted THEN Min(fatals + 1, 2) ELSE fatals
     /\ polled' = NoPoll /\ tick' = NoTick
     /\ UNCHANGED <<latestResourceVersions, refreshInterval, processedNodes,
                    connectionTimeoutId, envVars, histVars,
                 clientVars, watcherVars, viewVars, orderVars, deletion>>

\* a catch block that slows the polling down after a failure
CatchBacksOff(err, stopIn) ==
  LET count == errorCount + 1
      exhausted == count >= MAX_ERRORS
      out == <<Callback("error", err)>> \o
             (IF exhausted THEN <<Callback("error", "exhausted")>> ELSE <<>>)
      running == isFetching /\ ~stopIn
  IN /\ errorCount' = count
     /\ refreshInterval' = Grow(refreshInterval)
     /\ delivered' = Marked(out, stopped, IF stopIn THEN 1 ELSE 0)
     /\ IF stopIn
        THEN StopFetching /\ StopCounted
        ELSE /\ isFetching' = (isFetching /\ ~exhausted)
             /\ UNCHANGED <<aborted, connTimer, hbTimer>>
             /\ NotStoppedHere
     /\ IF ~exhausted /\ running
        THEN /\ pollTimers' = pollTimers + 1
             /\ lastTimeout' = [kind |-> "retry", delay |-> RetryDelay(refreshInterval)]
        ELSE UNCHANGED <<pollTimers, lastTimeout>>
     /\ fatals' = IF exhausted THEN Min(fatals + 1, 2) ELSE fatals
     /\ polled' = NoPoll /\ tick' = NoTick
     /\ UNCHANGED <<latestResourceVersions, processedNodes,
                    connectionTimeoutId, envVars, histVars,
                 clientVars, watcherVars, viewVars, orderVars, deletion>>

\* lines 426-447: the catch block.  stopIn: the subscriber calls stop()
\* inside the first errorCallback.
Catch(err, stopIn) ==
  LET count == errorCount + 1
      exhausted == count >= MAX_ERRORS
      out == <<Callback("error", err)>> \o
             (IF exhausted THEN <<Callback("error", "exhausted")>> ELSE <<>>)
      running == isFetching /\ ~stopIn
  IN /\ errorCount' = count
     /\ delivered' = Marked(out, stopped, IF stopIn THEN 1 ELSE 0)
     /\ IF stopIn
        THEN StopFetching /\ StopCounted
        ELSE /\ isFetching' = (isFetching /\ ~exhausted)
             /\ UNCHANGED <<aborted, connTimer, hbTimer>>
             /\ NotStoppedHere
     /\ IF ~exhausted /\ running
        THEN /\ pollTimers' = pollTimers + 1
             /\ lastTimeout' = [kind |-> "retry", delay |-> RetryDelay(refreshInterval)]
        ELSE UNCHANGED <<pollTimers, lastTimeout>>
     /\ fatals' = IF exhausted THEN Min(fatals + 1, 2) ELSE fatals
     /\ polled' = NoPoll /\ tick' = NoTick
     /\ UNCHANGED <<latestResourceVersions, refreshInterval, processedNodes,
                    connectionTimeoutId, envVars, histVars,
                 clientVars, watcherVars, viewVars, orderVars, deletion>>

\* a fetch that resolves OK without line 363 (errorCount = 0)
FetchOkKeepsErrorCount ==
  /\ fetching > 0
  /\ ~aborted
  /\ fetching' = fetching - 1
  /\ parsing' = parsing + 1
  /\ connTimer' = IF connectionTimeoutId # "null" /\ connTimer = "pending"
                  THEN "cleared" ELSE connTimer
  /\ connectionTimeoutId' = "null"
  /\ errorCount' = errorCount
  /\ failedFetches' = 0
  /\ Quiet
  /\ UNCHANGED <<isFetching, aborted, latestResourceVersions, refreshInterval,
                 processedNodes, hbTimer, pollTimers, lastTimeout, envVars,
                 stopped, stopCalls, histVars, malformed, fatals,
                 clientVars, watcherVars, viewVars, orderVars, deletion>>

\* a fetch that resolves OK without lines 357-360 (clearTimeout)
FetchOkLeavesTimeout ==
  /\ fetching > 0
  /\ ~aborted
  /\ fetching' = fetching - 1
  /\ parsing' = parsing + 1
  /\ errorCount' = 0
  /\ failedFetches' = 0
  /\ Quiet
  /\ UNCHANGED <<isFetching, aborted, latestResourceVersions, refreshInterval,
                 processedNodes, connectionTimeoutId, connTimer, hbTimer,
                 pollTimers, lastTimeout, envVars,
                 stopped, stopCalls, histVars, malformed, fatals,
                 clientVars, watcherVars, viewVars, orderVars, deletion>>

\* lines 346-365: the fetch resolves with an OK response
FetchOk ==
  /\ fetching > 0
  /\ ~aborted
  /\ fetching' = fetching - 1
  /\ parsing' = parsing + 1
  /\ connTimer' = IF connectionTimeoutId # "null" /\ connTimer = "pending"
                  THEN "cleared" ELSE connTimer
  /\ connectionTimeoutId' = "null"
  /\ errorCount' = 0
  /\ failedFetches' = 0
  /\ Quiet
  /\ UNCHANGED <<isFetching, aborted, latestResourceVersions, refreshInterval,
                 processedNodes, hbTimer, pollTimers, lastTimeout, envVars,
                 stopped, stopCalls, histVars, malformed, fatals,
                 clientVars, watcherVars, viewVars, orderVars, deletion>>

\* lines 346-354: the fetch rejects (network error, or AbortError once the
\* signal is aborted) or resolves with a status that is not OK
FetchErrors == IF aborted THEN {"abort"} ELSE {"network", "http401", "http500"}
FetchFail(err, stopIn) ==
  /\ fetching > 0
  /\ err \in FetchErrors
  /\ fetching' = fetching - 1
  /\ failedFetches' = failedFetches + 1
  /\ malformed' = 0
  /\ UNCHANGED parsing
  /\ Catch(err, stopIn)

\* line 365: response.json() rejects (a malformed body, or AbortError)
BodyErrors == IF aborted THEN {"abort"} ELSE {"parse"}
BodyFail(err, stopIn) ==
  /\ parsing > 0
  /\ err \in BodyErrors
  /\ parsing' = parsing - 1
  /\ malformed' = IF err = "parse" THEN Min(malformed + 1, MaxMalformed)
                  ELSE malformed
  /\ UNCHANGED <<fetching, failedFetches>>
  /\ Catch(err, stopIn)

\* lines 365-425: response.json() resolves with the list; the delivery
\* loop, the interval adjustment and the next setTimeout.  stopAt: the
\* callback (0: none) inside which the subscriber calls stop().
BodyData(blanked, blank, stopAt) ==
  /\ parsing > 0
  /\ ~aborted
  /\ parsing' = parsing - 1
  /\ LET items == ItemsFrom(1, blanked, blank)
         r == Deliver(items)
         seen(ph) == {n \in LeafNodes :
                        \E i \in DOMAIN items :
                          /\ HasIdentity(items[i])
                          /\ \E j \in DOMAIN items[i].nodes :
                               /\ items[i].nodes[j].id = n
                               /\ items[i].nodes[j].phase \in ph}
     IN /\ stopAt \in 0..Len(r.out)
        /\ latestResourceVersions' = r.cache
        /\ processedNodes' = r.processed
        /\ refreshInterval' = NextInterval(refreshInterval, r.hasUpdates)
        /\ pollTimers' = pollTimers + 1
        /\ lastTimeout' = [kind |-> "poll", delay |-> refreshInterval']
        /\ delivered' = Marked(r.out, stopped, stopAt)
        /\ polled' = [done |-> TRUE, items |-> items, before |-> latestResourceVersions]
        /\ notices' = [n \in Nodes |-> Min(2, notices[n] + Times_n(r.out, n))]
        /\ seenNonTerminal' = seenNonTerminal \cup seen(NodePhases \ TerminalPhases)
        /\ seenTerminal' = seenTerminal \cup seen(TerminalPhases)
  /\ IF stopAt > 0
     THEN StopFetching /\ StopCounted
     ELSE UNCHANGED <<isFetching, aborted, connTimer, hbTimer>> /\ NotStoppedHere
  /\ polls' = polls + 1
  /\ tick' = NoTick
  /\ malformed' = 0
  /\ UNCHANGED <<errorCount, connectionTimeoutId, fetching, envVars,
                 failedFetches, fatals, clientVars, watcherVars, viewVars, orderVars, deletion>>

\* lines 372-413 left by an exception: the state the loop has reached when
\* the k-th callback of the delivery is running.  The cache holds the token
\* of every workflow that has had a callback (line 380 precedes them), the
\* processed set every node that has had one (line 401).
VersionIn(items, w) ==
  items[CHOOSE i \in DOMAIN items : items[i].name = w].resourceVersion
DeliverUntil(items, k) ==
  LET out == SubSeq(Deliver(items).out, 1, k)
      reached == {out[i].wf : i \in DOMAIN out}
  IN [cache |-> [w \in WfNames |->
                   IF w \in reached THEN VersionIn(items, w)
                   ELSE latestResourceVersions[w]],
      processed |-> processedNodes \cup
                      ({out[i].node : i \in DOMAIN out} \ {"-"}),
      out |-> out]

\* lines 365-413 and 426-447: response.json() resolves with the list and
\* the k-th callback of the delivery throws; the exception leaves the loop
\* for the catch block, which counts it, reports it and arms the retry
BodyThrows(k) ==
  /\ parsing > 0
  /\ ~aborted
  /\ parsing' = parsing - 1
  /\ LET items == ItemsFrom(1, "-", "none")
         r == DeliverUntil(items, k)
         count == errorCount + 1
         exhausted == count >= MAX_ERRORS
     IN /\ k \in 1..Len(Deliver(items).out)
        /\ latestResourceVersions' = r.cache
        /\ processedNodes' = r.processed
        /\ errorCount' = count
        /\ delivered' = Marked(r.out \o <<Callback("error", "thrown")>> \o
                            (IF exhausted THEN <<Callback("error", "exhausted")>>
                             ELSE <<>>), stopped, 0)
        /\ polled' = [done |-> FALSE, items |-> items,
                      before |-> latestResourceVersions]
        /\ notices' = [n \in Nodes |-> Min(2, notices[n] + Times_n(r.out, n))]
        /\ isFetching' = (isFetching /\ ~exhausted)
        /\ IF ~exhausted /\ isFetching
           THEN /\ pollTimers' = pollTimers + 1
                /\ lastTimeout' = [kind |-> "retry",
                                   delay |-> RetryDelay(refreshInterval)]
           ELSE UNCHANGED <<pollTimers, lastTimeout>>
        /\ fatals' = IF exhausted THEN Min(fatals + 1, 2) ELSE fatals
  /\ polls' = polls + 1
  /\ tick' = NoTick
  /\ malformed' = 0
  /\ UNCHANGED <<aborted, refreshInterval, connectionTimeoutId, connTimer,
                 hbTimer, fetching, envVars, stopped, stopCalls,
                 seenNonTerminal, seenTerminal, failedFetches,
                 clientVars, watcherVars, viewVars, orderVars, deletion>>

\* ----------------------------------------------------- specifications
Blanks == {"name", "version"}
\* the most callbacks one delivery makes: one per workflow and leaf node
MaxCallbacks == Len(Workflows) + Cardinality(LeafNodes)

\* the handlers of the session and the calls of its subscriber
Session(maxPolls) ==
  \/ Stop
  \/ ConnectionTimeout
  \/ Heartbeat
  \/ \E early \in BOOLEAN : PollTick(early, 1)
  \/ FetchOk
  \/ \E err \in FetchErrors, stopIn \in BOOLEAN : FetchFail(err, stopIn)
  \/ \E err \in BodyErrors, stopIn \in BOOLEAN : BodyFail(err, stopIn)
  \/ /\ polls < maxPolls
     /\ \/ \E stopAt \in 0..MaxCallbacks : BodyData("-", "version", stopAt)
        \/ \E w \in WfNames, blank \in Blanks, stopAt \in 0..MaxCallbacks :
             BodyData(w, blank, stopAt)

\* The whole session against a backend whose workflows are created and
\* rewritten while their nodes have not started.
Next ==
  \/ Session(MaxPolls)
  \/ \E w \in WfNames : BackendBump(w, MaxVersion)

Spec == Init /\ [][Next]_vars

\* Delivery: a transport that does not fail and a subscriber that does not
\* stop, against a backend whose workflows and nodes all move.
NextDelivery ==
  \/ PollTick(FALSE, 1)
  \/ FetchOk
  \/ /\ polls < MaxPolls
     /\ \/ BodyData("-", "version", 0)
        \/ \E w \in WfNames, blank \in Blanks : BodyData(w, blank, 0)
  \/ \E w \in WfNames : BackendBump(w, MaxVersion)
  \/ \E n \in Nodes, p \in NodePhases : BackendAdvance(n, p, MaxVersion)

SpecDelivery == Init /\ [][NextDelivery]_vars

\* Backoff: a subscriber that does not stop, a transport that fails, one
\* workflow that is rewritten between polls.
NextBackoff ==
  \/ ConnectionTimeout
  \/ \E early \in BOOLEAN : PollTick(early, 1)
  \/ FetchOk
  \/ \E err \in FetchErrors : FetchFail(err, FALSE)
  \/ \E err \in BodyErrors : BodyFail(err, FALSE)
  \/ polls < MaxBackoffPolls /\ BodyData("-", "version", 0)
  \/ BackendBump(Workflows[1], MaxBackoffVersion)

SpecBackoff == Init /\ [][NextBackoff]_vars

\* Throwing subscriber: a transport that does not fail and a subscriber
\* that does not stop but whose event callback may throw, against a backend
\* whose workflows and nodes all move.
NextThrow ==
  \/ PollTick(FALSE, 1)
  \/ FetchOk
  \/ polls < MaxPolls /\ BodyData("-", "version", 0)
  \/ polls < MaxPolls /\ \E k \in 1..MaxCallbacks : BodyThrows(k)
  \/ \E w \in WfNames : BackendBump(w, MaxVersion)
  \/ \E n \in Nodes, p \in NodePhases : BackendAdvance(n, p, MaxVersion)

SpecThrow == Init /\ [][NextThrow]_vars

\* Failures between deliveries: a subscriber that does not stop and a
\* transport that fails, against a backend where the first workflow is
\* rewritten and its first node moves.
NextFrame ==
  \/ PollTick(FALSE, 1)
  \/ FetchOk
  \/ \E err \in FetchErrors : FetchFail(err, FALSE)
  \/ polls < MaxPolls /\ BodyData("-", "version", 0)
  \/ BackendBump(Workflows[1], MaxVersion)
  \/ \E p \in NodePhases : BackendAdvance(WfNodes[Workflows[1]][1], p, MaxVersion)

SpecFrame == Init /\ [][NextFrame]_vars

\* Liveness: the handlers of the backoff specification with the timers
\* firing fairly.  A poll timer that is pending fires, and a tick that
\* defers (line 334) arms its timer for the time that remains, so a tick
\* that passes the interval guard cannot be put off for ever.
SpecLive == Init /\ [][NextBackoff]_vars /\ WF_vars(PollTick(FALSE, 1))

\* ------------------------------------------- the sessions of one client
\* Every call of streamWorkflowEvents creates a closure of its own; the
\* client keeps no reference to it.  A closure is followed through its
\* stop(), its connection timeout and its polls against a transport that
\* does not fail, all sessions on the default namespace; chain is where
\* its fetchData chain stands: "fetch" and "body" at the two awaits,
\* "timer" while a poll timer is pending, "idle" when it has ended.

\* a closure that takes the cache of the session created before it
NewSessionInheritsCache ==
  [isFetching |-> TRUE, aborted |-> FALSE,
   latestResourceVersions |->
     IF sessions = <<>> THEN NoCache
     ELSE sessions[Len(sessions)].latestResourceVersions,
   refreshInterval |-> Whole(InitialInterval), processedNodes |-> {},
   connTimer |-> "pending", hbTimer |-> "active", chain |-> "fetch"]

\* lines 287-323 and 451: the closure state, both timers armed, the first
\* fetchData() suspended at its fetch
NewSession ==
  [isFetching |-> TRUE, aborted |-> FALSE,
   latestResourceVersions |-> NoCache,
   refreshInterval |-> Whole(InitialInterval), processedNodes |-> {},
   connTimer |-> "pending", hbTimer |-> "active", chain |-> "fetch"]

\* lines 290-298: the state of a closure no other code can reach
Alone ==
  [cache |-> NoCache, processed |-> {},
   interval |-> Whole(InitialInterval)]

NoTrace == [polls |-> 0, out |-> <<>>, alone |-> Alone, aloneOut |-> <<>>]

\* lines 280-467: streamWorkflowEvents is called on the client
StreamWorkflowEvents ==
  /\ Len(sessions) < Len(Subscribers)
  /\ sessions' = Append(sessions, NewSession)
  /\ trace' = Append(trace, NoTrace)
  /\ UNCHANGED <<soloVars, envVars, watcherVars, viewVars, orderVars, deletion>>

\* lines 454-460: the subscriber calls the stop() of session s
SessionStop(s) ==
  /\ sessions' = [sessions EXCEPT ![s] =
       [@ EXCEPT !.isFetching = FALSE, !.aborted = TRUE,
                 !.connTimer = IF @ = "pending" THEN "cleared" ELSE @,
                 !.hbTimer = "cleared"]]
  /\ UNCHANGED <<trace, soloVars, envVars, watcherVars, viewVars, orderVars, deletion>>

\* lines 309-314: the connection timeout of session s fires
SessionTimeout(s) ==
  /\ sessions[s].connTimer = "pending"
  /\ sessions' = [sessions EXCEPT ![s] =
       [@ EXCEPT !.connTimer = "fired", !.isFetching = FALSE]]
  /\ UNCHANGED <<trace, soloVars, envVars, watcherVars, viewVars, orderVars, deletion>>

\* lines 326-350: the poll timer of session s fires
SessionTick(s) ==
  /\ sessions[s].chain = "timer"
  /\ sessions' = [sessions EXCEPT ![s].chain =
       IF sessions[s].isFetching THEN "fetch" ELSE "idle"]
  /\ UNCHANGED <<trace, soloVars, envVars, watcherVars, viewVars, orderVars, deletion>>

\* lines 346-365: the fetch of session s resolves OK
SessionFetchOk(s) ==
  /\ sessions[s].chain = "fetch"
  /\ ~sessions[s].aborted
  /\ sessions' = [sessions EXCEPT ![s] =
       [@ EXCEPT !.chain = "body",
                 !.connTimer = IF @ = "pending" THEN "cleared" ELSE @]]
  /\ UNCHANGED <<trace, soloVars, envVars, watcherVars, viewVars, orderVars, deletion>>

\* lines 426-447: the fetch or the body of session s rejects with the
\* AbortError of stop(); isFetching is false and no retry is scheduled
SessionAborted(s) ==
  /\ sessions[s].chain \in {"fetch", "body"}
  /\ sessions[s].aborted
  /\ sessions' = [sessions EXCEPT ![s].chain = "idle"]
  /\ UNCHANGED <<trace, soloVars, envVars, watcherVars, viewVars, orderVars, deletion>>

\* lines 365-425: the body of session s is parsed and delivered
SessionBody(s) ==
  /\ sessions[s].chain = "body"
  /\ ~sessions[s].aborted
  /\ trace[s].polls < MaxSessionPolls
  /\ LET items == ItemsFrom(1, "-", "none")
         r == ProcessItems(items, 1,
                [cache |-> sessions[s].latestResourceVersions,
                 processed |-> sessions[s].processedNodes,
                 hasUpdates |-> FALSE, out |-> <<>>])
         a == ProcessItems(items, 1,
                [cache |-> trace[s].alone.cache,
                 processed |-> trace[s].alone.processed,
                 hasUpdates |-> FALSE, out |-> <<>>])
     IN /\ sessions' = [sessions EXCEPT ![s] =
             [@ EXCEPT !.latestResourceVersions = r.cache,
                       !.processedNodes = r.processed,
                       !.refreshInterval = NextInterval(@, r.hasUpdates),
                       !.chain = "timer"]]
        /\ trace' = [trace EXCEPT ![s] =
             [polls |-> @.polls + 1, out |-> r.out,
              alone |-> [cache |-> a.cache, processed |-> a.processed,
                         interval |-> NextInterval(@.alone.interval,
                                                   a.hasUpdates)],
              aloneOut |-> a.out]]
  /\ UNCHANGED <<soloVars, envVars, watcherVars, viewVars, orderVars, deletion>>

\* the backend the sessions poll: a workflow is created or rewritten, a
\* node moves on
ClientBackendBump(w) ==
  /\ sessions # <<>>
  /\ rv[w] < MaxSessionVersion
  /\ rv' = [rv EXCEPT ![w] = rv[w] + 1]
  /\ UNCHANGED <<nodePhase, soloVars, clientVars, watcherVars, viewVars, orderVars, deletion>>

ClientBackendAdvance(n, p) ==
  /\ rv[WfOf(n)] # NoVersion
  /\ rv[WfOf(n)] < MaxSessionVersion
  /\ p \in LaterPhases(nodePhase[n])
  /\ nodePhase' = [nodePhase EXCEPT ![n] = p]
  /\ rv' = [rv EXCEPT ![WfOf(n)] = rv[WfOf(n)] + 1]
  /\ UNCHANGED <<soloVars, clientVars, watcherVars, viewVars, orderVars, deletion>>

\* ---------------------------------------------------- WorkflowWatcher
\* The watcher as one value, so that the calls a handler makes one after
\* the other can be composed.
Watcher ==
  [eventSource |-> eventSource, sources |-> sources, watches |-> watches,
   streams |-> streams]

Becomes(w) ==
  /\ eventSource' = w.eventSource
  /\ sources' = w.sources
  /\ watches' = w.watches
  /\ streams' = w.streams

\* part_003 lines 67-72: stop() closes the EventSource the field holds
Stopped(w) ==
  [w EXCEPT !.sources = @ \ {w.eventSource}, !.eventSource = 0]

\* part_003 lines 19-24: watch() stops, then constructs the EventSource
\* and keeps it in the field
Watching(w) ==
  LET s == Stopped(w)
  IN [s EXCEPT !.watches = @ + 1,
               !.eventSource = s.watches + 1,
               !.sources = @ \cup {s.watches + 1},
               !.streams = Append(@, NewStream)]

\* what a callback of the subscriber does with the watcher while it runs
Reentries == {"none", "stop", "watch"}
Reentered(w, r) ==
  CASE r = "stop" -> Stopped(w)
    [] r = "watch" -> Watching(w)
    [] OTHER -> w
Reenters(r) == IF r = "watch" THEN 1 ELSE 0

WatcherStopped == Becomes(Stopped(Watcher))

\* part_003 lines 12-65: watch is called
Watch ==
  /\ watches < MaxWatches
  /\ Becomes(Watching(Watcher))
  /\ UNCHANGED <<dispatch, eventStream, soloVars, envVars, clientVars, viewVars, orderVars, deletion>>

\* part_003 line 64: the function the k-th watch() returned is called
WatcherStop(k) ==
  /\ WatcherStopped
  /\ dispatch' = [source |-> k, data |-> "stop", calls |-> <<>>]
  /\ UNCHANGED <<eventStream, soloVars, envVars, clientVars, viewVars, orderVars, deletion>>

\* event.data of a message: empty, not JSON, JSON without
\* result.object.metadata, or a workflow in some phase
SkippedData == {"", "garbage", "nometa"}
MessageData == SkippedData \cup {"Pending", "Running"} \cup TerminalPhases

\* onUpdate(status) on the EventSource id
Updated(w, id, phase) ==
  [w EXCEPT !.streams[id] =
     [last |-> phase,
      terminal |-> @.terminal \/ phase \in TerminalPhases,
      closes |-> @.closes,
      late |-> @.late \/ @.terminal]]

\* onClose() on the EventSource id
Closed(w, id) == [w EXCEPT !.streams[id].closes = Min(@ + 1, 2)]

\* a handler that leaves the stream open after a terminal update
OnMessageKeepsOpen(id, data, r1, r2) ==
  /\ id \in sources
  /\ watches + Reenters(r1) + Reenters(r2) <= MaxWatches
  /\ data \notin TerminalPhases => r2 = "none"
  /\ data \in SkippedData => r1 = "none"
  /\ IF data \in SkippedData
     THEN /\ dispatch' = [source |-> id, data |-> data, calls |-> <<>>]
          /\ UNCHANGED <<eventSource, sources, watches, streams>>
     ELSE LET w1 == Reentered(Updated(Watcher, id, data), r1)
          IN IF data \in TerminalPhases
             THEN /\ Becomes(Reentered(Closed(w1, id), r2))
                  /\ dispatch' = [source |-> id, data |-> data,
                                  calls |-> <<"onUpdate", "onClose">>]
             ELSE /\ Becomes(w1)
                  /\ dispatch' = [source |-> id, data |-> data,
                                  calls |-> <<"onUpdate">>]
  /\ UNCHANGED <<eventStream, soloVars, envVars, clientVars, viewVars,
                 orderVars, deletion>>

\* a handler that gives up the stream when a message cannot be parsed
OnMessageStopsOnGarbage(id, data, r1, r2) ==
  /\ id \in sources
  /\ watches + Reenters(r1) + Reenters(r2) <= MaxWatches
  /\ data \notin TerminalPhases => r2 = "none"
  /\ data \in SkippedData => r1 = "none"
  /\ IF data \in SkippedData
     THEN /\ dispatch' = [source |-> id, data |-> data, calls |-> <<>>]
          /\ IF data = "garbage"
             THEN Becomes(Stopped(Watcher))
             ELSE UNCHANGED <<eventSource, sources, watches, streams>>
     ELSE LET w1 == Reentered(Updated(Watcher, id, data), r1)
          IN IF data \in TerminalPhases
             THEN /\ Becomes(Stopped(Reentered(Closed(w1, id), r2)))
                  /\ dispatch' = [source |-> id, data |-> data,
                                  calls |-> <<"onUpdate", "onClose">>]
             ELSE /\ Becomes(w1)
                  /\ dispatch' = [source |-> id, data |-> data,
                                  calls |-> <<"onUpdate">>]
  /\ UNCHANGED <<eventStream, soloVars, envVars, clientVars, viewVars,
                 orderVars, deletion>>

\* part_003 lines 30-56: the open EventSource id receives a message; the
\* subscriber's onUpdate does r1 with the watcher, its onClose does r2
OnMessage(id, data, r1, r2) ==
  /\ id \in sources
  /\ watches + Reenters(r1) + Reenters(r2) <= MaxWatches
  /\ data \notin TerminalPhases => r2 = "none"
  /\ data \in SkippedData => r1 = "none"
  /\ IF data \in SkippedData
     THEN /\ dispatch' = [source |-> id, data |-> data, calls |-> <<>>]
          /\ UNCHANGED <<eventSource, sources, watches, streams>>
     ELSE LET w1 == Reentered(Updated(Watcher, id, data), r1)
          IN IF data \in TerminalPhases
             THEN /\ Becomes(Stopped(Reentered(Closed(w1, id), r2)))
                  /\ dispatch' = [source |-> id, data |-> data,
                                  calls |-> <<"onUpdate", "onClose">>]
             ELSE /\ Becomes(w1)
                  /\ dispatch' = [source |-> id, data |-> data,
                                  calls |-> <<"onUpdate">>]
  /\ UNCHANGED <<eventStream, soloVars, envVars, clientVars, viewVars,
                 orderVars, deletion>>

\* the calls of a component on one watcher and the messages of its streams
NextWatcher ==
  \/ Watch
  \/ \E k \in 1..watches : WatcherStop(k)
  \/ \E id \in sources, data \in MessageData, r1, r2 \in Reentries :
       OnMessage(id, data, r1, r2)

SpecWatcher == Init /\ [][NextWatcher]_vars

\* ------------------------------------------------ WorkflowEventStream
\* WorkflowEventStream.ts lines 69-75: close() closes the EventSource the
\* field holds
EventStreamClosed(s) ==
  [s EXCEPT !.sources = @ \ {s.eventSource}, !.eventSource = 0]

\* WorkflowEventStream.ts lines 21-29: streamWorkflowEvents closes, then
\* constructs the EventSource and keeps it in the field
EventStreamOpened(s) ==
  LET c == EventStreamClosed(s)
  IN [c EXCEPT !.opened = @ + 1,
               !.eventSource = c.opened + 1,
               !.sources = @ \cup {c.opened + 1}]

\* WorkflowEventStream.ts lines 13-67: streamWorkflowEvents is called
EventStreamWorkflowEvents ==
  /\ eventStream.opened < MaxStreams
  /\ eventStream' = EventStreamOpened(eventStream)
  /\ UNCHANGED <<eventSource, sources, watches, streams, dispatch, soloVars,
                 envVars, clientVars, viewVars, orderVars, deletion>>

\* WorkflowEventStream.ts line 66: the function streamWorkflowEvents
\* returned is called
EventStreamClose ==
  /\ eventStream' = EventStreamClosed(eventStream)
  /\ UNCHANGED <<eventSource, sources, watches, streams, dispatch, soloVars,
                 envVars, clientVars, viewVars, orderVars, deletion>>

\* WorkflowEventStream.ts lines 36-57: the open EventSource id receives a
\* message.  Empty data returns at line 42, data that is not JSON throws at
\* line 45 into the catch of line 54, which only logs, a result without
\* object.metadata returns at line 50; anything else goes to onEvent.
EventStreamOnMessage(id, data) ==
  /\ id \in eventStream.sources
  /\ eventStream' = [eventStream EXCEPT !.handled =
       [source |-> id, data |-> data,
        calls |-> IF data \in SkippedData THEN <<>> ELSE <<"onEvent">>]]
  /\ UNCHANGED <<eventSource, sources, watches, streams, dispatch, soloVars,
                 envVars, clientVars, viewVars, orderVars, deletion>>

\* ------------------------------------------------ deleteAllWorkflows
\* metadata.name of a listed workflow: absent ("") or a name
ListedNames == {""} \cup WfNames
RECURSIVE Listings(_)
Listings(n) ==
  IF n = 0 THEN {<<>>}
  ELSE Listings(n - 1) \cup
       {Append(l, x) : l \in {m \in Listings(n - 1) : Len(m) = n - 1},
                       x \in ListedNames}

\* lines 213-229: the loop from item i on, up to its next await or to the
\* return of line 229.  A workflow without a name adds an error entry and
\* the loop continues (lines 214-217); for any other the DELETE is sent
\* (line 221).
RECURSIVE DeleteLoop(_, _)
DeleteLoop(d, i) ==
  IF i > Len(d.items)
  THEN [d EXCEPT !.stage = "returned", !.next = i]
  ELSE IF d.items[i] = ""
  THEN DeleteLoop([d EXCEPT !.errors = Append(@, "missing name")], i + 1)
  ELSE [d EXCEPT !.stage = "deleting", !.next = i,
                 !.attempts = Append(@, d.items[i])]

\* lines 199-206: deleteAllWorkflows is called and awaits listWorkflows
DeleteAllWorkflows ==
  /\ deletion.stage \in {"idle", "returned"}
  /\ deletion' = [NoDeletion EXCEPT !.stage = "listing"]
  /\ UNCHANGED <<soloVars, envVars, clientVars, watcherVars, viewVars,
                 orderVars>>

\* lines 206-221: listWorkflows resolves; no items (null or empty) return
\* the empty result
ListResolved(items) ==
  /\ deletion.stage = "listing"
  /\ deletion' = IF items = <<>>
                 THEN [deletion EXCEPT !.stage = "returned"]
                 ELSE DeleteLoop([deletion EXCEPT !.items = items], 1)
  /\ UNCHANGED <<soloVars, envVars, clientVars, watcherVars, viewVars,
                 orderVars>>

\* lines 230-234: listWorkflows rejects, the outer catch adds its entry
ListRejected ==
  /\ deletion.stage = "listing"
  /\ deletion' = [deletion EXCEPT !.stage = "returned",
                    !.errors = Append(@, "failed to list or delete")]
  /\ UNCHANGED <<soloVars, envVars, clientVars, watcherVars, viewVars,
                 orderVars>>

\* lines 221-222: deleteWorkflow resolves, and the loop goes on
DeleteResolved ==
  /\ deletion.stage = "deleting"
  /\ deletion' = DeleteLoop([deletion EXCEPT !.deleted = @ + 1],
                            deletion.next + 1)
  /\ UNCHANGED <<soloVars, envVars, clientVars, watcherVars, viewVars,
                 orderVars>>

\* a loop without the try of line 219: the rejection reaches the outer
\* catch, which adds its entry and returns
DeleteRejectedLeavesLoop ==
  /\ deletion.stage = "deleting"
  /\ deletion' = [deletion EXCEPT !.stage = "returned",
                    !.errors = Append(@, "failed to list or delete")]
  /\ UNCHANGED <<soloVars, envVars, clientVars, watcherVars, viewVars,
                 orderVars>>

\* lines 223-226: deleteWorkflow rejects, the inner catch adds its entry,
\* and the loop goes on
DeleteRejected ==
  /\ deletion.stage = "deleting"
  /\ deletion' = DeleteLoop([deletion EXCEPT
                               !.errors = Append(@, "failed to delete")],
                            deletion.next + 1)
  /\ UNCHANGED <<soloVars, envVars, clientVars, watcherVars, viewVars,
                 orderVars>>

NextDelete ==
  \/ DeleteAllWorkflows
  \/ \E items \in Listings(MaxListed) : ListResolved(items)
  \/ ListRejected
  \/ DeleteResolved
  \/ DeleteRejected

SpecDelete == Init /\ [][NextDelete]_vars

\* Push subscriptions: a component with one watcher and one event stream,
\* whose callbacks leave both alone, and the messages of their streams:
\* the three kinds that are skipped, a workflow that runs and one that has
\* finished.
PushData == SkippedData \cup {"Running", "Succeeded"}
NextPush ==
  \/ Watch
  \/ \E k \in 1..watches : WatcherStop(k)
  \/ \E id \in sources, data \in PushData :
       OnMessage(id, data, "none", "none")
  \/ EventStreamWorkflowEvents
  \/ EventStreamClose
  \/ \E id \in eventStream.sources, data \in PushData :
       EventStreamOnMessage(id, data)

SpecPush == Init /\ [][NextPush]_vars

\* Subscriptions: the calls of the subscribers on one client and the
\* handlers of the sessions they create, against a backend that creates and
\* rewrites one workflow; or the calls of a component on one watcher.
NextClient ==
  \/ watches = 0 /\ StreamWorkflowEvents
  \/ \E s \in DOMAIN sessions :
       \/ SessionStop(s)
       \/ SessionTimeout(s)
       \/ SessionTick(s)
       \/ SessionFetchOk(s)
       \/ SessionAborted(s)
       \/ SessionBody(s)
  \/ ClientBackendBump(Workflows[1])
  \/ \E n \in Nodes, p \in NodePhases :
       WfOf(n) = Workflows[1] /\ ClientBackendAdvance(n, p)
  \/ sessions = <<>> /\ Watch
  \/ sessions = <<>> /\ \E k \in 1..watches : WatcherStop(k)

SpecClient == Init /\ [][NextClient]_vars

\* ---------------------------------------------------- WorkflowManager
\* The component subscribes to streamWorkflowEvents and keeps, per node
\* name, the output it shows (taskOutputs).  The node it is followed on is
\* the leaf of the first workflow; a node's name is its id here.
ViewWorkflow == Workflows[1]
ViewNode == WfNodes[ViewWorkflow][1]
OutputKey == "output-data"

\* node.outputs.parameters of the node once it has succeeded
ParamSets ==
  {<<>>,
   <<[name |-> "result", value |-> "elsewhere"]>>,
   <<[name |-> OutputKey, value |-> ""]>>,
   <<[name |-> OutputKey, value |-> "initial-data-processed"]>>}

\* The log of the node, line by line: a line is lead, followed when marker
\* holds by the text "output-data: " and rest.
Line(lead, marker, rest) == [lead |-> lead, marker |-> marker, rest |-> rest]
LogTexts ==
  {<<>>,
   <<Line("  ", FALSE, "")>>,
   <<Line("starting", FALSE, "")>>,
   <<Line("", TRUE, "")>>,
   <<Line("", TRUE, "from-log ")>>,
   <<Line("INFO ", TRUE, "mid-line")>>,
   <<Line("starting", FALSE, ""), Line("", TRUE, "from-log ")>>}

Inputs ==
  [given : {TRUE}, params : ParamSets, message : {"", "exit code 1"},
   log : LogTexts]

ParamsOf(id) == IF id = ViewNode THEN input.params ELSE <<>>
MessageOf(id) == IF id = ViewNode THEN input.message ELSE ""

\* String.prototype.trim on the texts that occur
Trim(s) ==
  CASE s = "from-log " -> "from-log"
    [] s = "  " -> ""
    [] OTHER -> s

\* lines 251: !logs || logs.trim() === ''
IsBlankLog(logs) ==
  \A i \in DOMAIN logs : ~logs[i].marker /\ Trim(logs[i].lead) = ""

\* lines 257 and 427: logs.match(/output-data: (.+)$/m), the capture of the
\* first match ("" when there is none): the pattern is not anchored at the
\* start of a line, and (.+) needs one character before the end of the line
LineMatches(l) == l.marker /\ l.rest # ""
OutputMatch(logs) ==
  IF \E i \in DOMAIN logs : LineMatches(logs[i])
  THEN logs[CHOOSE i \in DOMAIN logs :
              /\ LineMatches(logs[i])
              /\ \A j \in 1..(i - 1) : ~LineMatches(logs[j])].rest
  ELSE ""

\* lines 216-224 and 414-418: parameters.forEach keeps the value of the
\* last entry named output-data whose value is truthy ("" when none)
RECURSIVE StructuredValue(_, _, _)
StructuredValue(params, i, acc) ==
  IF i > Len(params) THEN acc
  ELSE StructuredValue(params, i + 1,
         IF params[i].name = OutputKey /\ params[i].value # ""
         THEN params[i].value ELSE acc)

Value(v) == [kind |-> "value", text |-> v]
Failure(m) == [kind |-> "failure", text |-> m]
LogError(m) == [kind |-> "logerror", text |-> m]

\* lines 213-244: the part of the handler of one node that runs before its
\* await: the structured value, the failure message, and whether
\* getWorkflowLogs is called
WithStructured(node, was) ==
  IF node.phase = "Succeeded" /\ StructuredValue(ParamsOf(node.id), 1, "") # ""
  THEN Value(StructuredValue(ParamsOf(node.id), 1, ""))
  ELSE was
WithFailure(node, was) ==
  IF node.phase = "Failed" /\ MessageOf(node.id) # ""
  THEN Failure(MessageOf(node.id))
  ELSE was
WantsLogs(node) == IsLeaf(node) /\ IsFinished(node)

\* lines 196-275: the handler of one callback, over the nodes of its
\* workflow
RECURSIVE HandleNodes(_, _, _)
HandleNodes(nodes, j, acc) ==
  IF j > Len(nodes) THEN acc
  ELSE LET node == nodes[j]
       IN HandleNodes(nodes, j + 1,
            [outputs |-> [acc.outputs EXCEPT ![node.id] =
                            WithFailure(node, WithStructured(node, @))],
             fetches |-> IF WantsLogs(node)
                         THEN [acc.fetches EXCEPT ![node.phase] = @ + 1]
                         ELSE acc.fetches])

\* the workflow an event carries
ItemNamed(items, name) ==
  items[CHOOSE i \in DOMAIN items : items[i].name = name]

\* the handler runs once for every callback of the poll
RECURSIVE HandleEvents(_, _, _, _)
HandleEvents(out, items, k, acc) ==
  IF k > Len(out) THEN acc
  ELSE HandleEvents(out, items, k + 1,
         HandleNodes(ItemNamed(items, out[k].wf).nodes, 1, acc))

\* lines 164-181: the component mounts and subscribes; the node it will
\* see has the outputs, the message and the log of inp
ViewMount(inp) ==
  /\ ~input.given
  /\ input' = inp
  /\ UNCHANGED <<viewPolls, viewCache, viewProcessed, events, logFetches,
                 taskOutputs, outputsCall>>
  /\ UNCHANGED <<soloVars, envVars, clientVars, watcherVars, orderVars, deletion>>

\* the backend the component polls: its workflow is created or rewritten,
\* its leaf node moves on
ViewBackendBump ==
  /\ input.given
  /\ rv[ViewWorkflow] < MaxViewVersion
  /\ rv' = [rv EXCEPT ![ViewWorkflow] = @ + 1]
  /\ UNCHANGED <<nodePhase, viewVars>>
  /\ UNCHANGED <<soloVars, clientVars, watcherVars, orderVars, deletion>>

ViewBackendAdvance(p) ==
  /\ input.given
  /\ rv[ViewWorkflow] # NoVersion
  /\ rv[ViewWorkflow] < MaxViewVersion
  /\ p \in LaterPhases(nodePhase[ViewNode])
  /\ nodePhase' = [nodePhase EXCEPT ![ViewNode] = p]
  /\ rv' = [rv EXCEPT ![ViewWorkflow] = @ + 1]
  /\ UNCHANGED viewVars
  /\ UNCHANGED <<soloVars, clientVars, watcherVars, orderVars, deletion>>

\* ArgoApiClient.ts lines 365-413 with WorkflowManager.tsx lines 183-247:
\* a poll of the subscription delivers its callbacks, and the handler of
\* each runs up to its getWorkflowLogs calls
ViewPoll ==
  /\ input.given
  /\ Len(viewPolls) < MaxViewPolls
  /\ LET items == ItemsFrom(1, "-", "none")
         r == ProcessItems(items, 1,
                [cache |-> viewCache, processed |-> viewProcessed,
                 hasUpdates |-> FALSE, out |-> <<>>])
         h == HandleEvents(r.out, items, 1,
                [outputs |-> taskOutputs, fetches |-> logFetches])
     IN /\ viewPolls' = Append(viewPolls,
             [version |-> rv[ViewWorkflow], phase |-> nodePhase[ViewNode]])
        /\ viewCache' = r.cache
        /\ viewProcessed' = r.processed
        /\ events' = r.out
        /\ taskOutputs' = h.outputs
        /\ logFetches' = h.fetches
  /\ UNCHANGED <<input, outputsCall>>
  /\ UNCHANGED <<soloVars, envVars, clientVars, watcherVars, orderVars, deletion>>

\* lines 247-272: a getWorkflowLogs call of the stream handler, made for
\* the node when it was in phase p, resolves with the log (ok) or rejects
LogsResolved(p, ok) ==
  /\ logFetches[p] > 0
  /\ logFetches' = [logFetches EXCEPT ![p] = @ - 1]
  /\ taskOutputs' =
       IF ~ok THEN [taskOutputs EXCEPT ![ViewNode] = LogError("request failed")]
       ELSE IF IsBlankLog(input.log) THEN taskOutputs
       ELSE IF OutputMatch(input.log) # "" /\ p = "Succeeded"
       THEN [taskOutputs EXCEPT ![ViewNode] = Value(Trim(OutputMatch(input.log)))]
       ELSE taskOutputs
  /\ UNCHANGED <<input, viewPolls, viewCache, viewProcessed, events,
                 outputsCall>>
  /\ UNCHANGED <<soloVars, envVars, clientVars, watcherVars, orderVars, deletion>>

\* lines 126-146 and 401-439: listWorkflows has found a succeeded node and
\* fetchWorkflowTaskOutputs has the workflow: the structured value goes to
\* newOutputs and the log of the Pod is requested
OutputsFetch ==
  /\ input.given
  /\ outputsCall.stage = "idle"
  /\ rv[ViewWorkflow] # NoVersion
  /\ nodePhase[ViewNode] = "Succeeded"
  /\ outputsCall' =
       [stage |-> IF NodeType[ViewNode] = "Pod" THEN "logs" ELSE "merge",
        newOutputs |->
          IF StructuredValue(ParamsOf(ViewNode), 1, "") # ""
          THEN Value(StructuredValue(ParamsOf(ViewNode), 1, ""))
          ELSE Unset]
  /\ UNCHANGED <<input, viewPolls, viewCache, viewProcessed, events,
                 logFetches, taskOutputs>>
  /\ UNCHANGED <<soloVars, envVars, clientVars, watcherVars, orderVars, deletion>>

\* lines 423-452: the log request settles (a rejection is only logged),
\* Promise.all resolves and newOutputs, when it has an entry, is merged
\* into taskOutputs
OutputsMerge(ok) ==
  /\ outputsCall.stage \in {"logs", "merge"}
  /\ (outputsCall.stage = "merge") => ok
  /\ LET new == IF outputsCall.stage = "logs" /\ ok
                     /\ OutputMatch(input.log) # ""
                THEN Value(Trim(OutputMatch(input.log)))
                ELSE outputsCall.newOutputs
     IN taskOutputs' = IF new # Unset
                       THEN [taskOutputs EXCEPT ![ViewNode] = new]
                       ELSE taskOutputs
  /\ outputsCall' = NoCall
  /\ UNCHANGED <<input, viewPolls, viewCache, viewProcessed, events,
                 logFetches>>
  /\ UNCHANGED <<soloVars, envVars, clientVars, watcherVars, orderVars, deletion>>

NextOutputs ==
  \/ \E inp \in Inputs : ViewMount(inp)
  \/ ViewBackendBump
  \/ \E p \in NodePhases : ViewBackendAdvance(p)
  \/ ViewPoll
  \/ \E p \in DOMAIN logFetches, ok \in BOOLEAN : LogsResolved(p, ok)
  \/ OutputsFetch
  \/ \E ok \in BOOLEAN : OutputsMerge(ok)

SpecOutputs == Init /\ [][NextOutputs]_vars

\* ------------------------------------------------------- task order
\* A dependency graph: the tasks of the entrypoint (each a leaf node of the
\* status map), the tasks each depends on, and the key order in which the
\* status map holds their nodes.
Rank(t) == CHOOSE i \in DOMAIN TaskNames : TaskNames[i] = t

Perms(S) ==
  {s \in [1..Cardinality(S) -> S] :
     \A i, j \in 1..Cardinality(S) : i # j => s[i] # s[j]}

Dags ==
  UNION {[given : {TRUE}, tasks : {S}, deps : [S -> SUBSET S],
          keys : Perms(S)] : S \in SUBSET TaskSet}

\* the tasks of S in lexicographic order of their names
Sorted(S) ==
  CHOOSE s \in Perms(S) :
    \A i, j \in 1..Cardinality(S) : i < j => Rank(s[i]) < Rank(s[j])

Elems(s) == {s[i] : i \in DOMAIN s}

\* resolve: in-degree of every task, ready queue seeded with the tasks of
\* in-degree zero in lexicographic order
ResolveStart(g) ==
  /\ ~dag.given
  /\ dag' = g
  /\ inDegree' = [t \in TaskSet |->
                    IF t \in g.tasks THEN Cardinality(g.deps[t]) ELSE 0]
  /\ queue' = Sorted({t \in g.tasks : g.deps[t] = {}})
  /\ order' = <<>>
  /\ UNCHANGED <<result, presented, rendered>>
  /\ UNCHANGED <<soloVars, envVars, clientVars, watcherVars, viewVars, deletion>>

\* a step that puts the newly ready tasks at the end of the queue
ResolveStepAppends ==
  /\ dag.given
  /\ result.kind = "none"
  /\ queue # <<>>
  /\ LET t == Head(queue)
         dependents == {u \in dag.tasks : t \in dag.deps[u]}
         degree == [u \in TaskSet |->
                      IF u \in dependents THEN inDegree[u] - 1
                      ELSE inDegree[u]]
         ready == {u \in dependents : degree[u] = 0}
     IN /\ order' = Append(order, t)
        /\ inDegree' = degree
        /\ queue' = Tail(queue) \o Sorted(ready)
  /\ UNCHANGED <<dag, result, presented, rendered>>
  /\ UNCHANGED <<soloVars, envVars, clientVars, watcherVars, viewVars, deletion>>

\* resolve, one turn of the loop: the smallest ready task is removed and
\* appended to the order, the in-degree of its dependents is decremented
\* and those that became ready are inserted into the sorted queue
ResolveStep ==
  /\ dag.given
  /\ result.kind = "none"
  /\ queue # <<>>
  /\ LET t == Head(queue)
         dependents == {u \in dag.tasks : t \in dag.deps[u]}
         degree == [u \in TaskSet |->
                      IF u \in dependents THEN inDegree[u] - 1
                      ELSE inDegree[u]]
         ready == {u \in dependents : degree[u] = 0}
     IN /\ order' = Append(order, t)
        /\ inDegree' = degree
        /\ queue' = Sorted(Elems(Tail(queue)) \cup ready)
  /\ UNCHANGED <<dag, result, presented, rendered>>
  /\ UNCHANGED <<soloVars, envVars, clientVars, watcherVars, viewVars, deletion>>

\* an end that returns the tasks ordered so far
ResolveEndPartial ==
  /\ dag.given
  /\ result.kind = "none"
  /\ queue = <<>>
  /\ result' = [kind |-> "order", order |-> order]
  /\ presented' = order
  /\ UNCHANGED <<dag, inDegree, queue, order, rendered>>
  /\ UNCHANGED <<soloVars, envVars, clientVars, watcherVars, viewVars, deletion>>

\* resolve, the queue is empty: the order when it holds every task, NoOrder
\* otherwise; the caller then presents the order, or the names in
\* alphabetical order
ResolveEnd ==
  /\ dag.given
  /\ result.kind = "none"
  /\ queue = <<>>
  /\ result' = IF Len(order) = Cardinality(dag.tasks)
               THEN [kind |-> "order", order |-> order]
               ELSE [kind |-> "NoOrder", order |-> <<>>]
  /\ presented' = IF Len(order) = Cardinality(dag.tasks)
                  THEN order ELSE Sorted(dag.tasks)
  /\ UNCHANGED <<dag, inDegree, queue, order, rendered>>
  /\ UNCHANGED <<soloVars, envVars, clientVars, watcherVars, viewVars, deletion>>

\* part_003 lines 76-99 (and WorkflowManager.tsx lines 653-660): the nodes
\* handed to the subscriber are Object.values(status.nodes) filtered to
\* Pod and Container, in the key order of the map
ExtractWorkflowStatus ==
  /\ dag.given
  /\ dag.tasks # {}
  /\ rendered = <<>>
  /\ rendered' = dag.keys
  /\ UNCHANGED <<dag, inDegree, queue, order, result, presented>>
  /\ UNCHANGED <<soloVars, envVars, clientVars, watcherVars, viewVars, deletion>>

NextOrder ==
  \/ \E g \in Dags : ResolveStart(g)
  \/ ResolveStep
  \/ ResolveEnd
  \/ ExtractWorkflowStatus

SpecOrder == Init /\ [][NextOrder]_vars

\* ------------------------------------------------------------ claims
EventsFor(name) ==
  Cardinality({k \in DOMAIN delivered :
                 delivered[k].cb = "event" /\ delivered[k].wf = name})

\* C1: every leaf node that a poll has shown non-terminal and a later poll
\* has shown terminal (each time in a snapshot that carries the name and
\* the version token of its workflow) has caused exactly one completion
\* notification.
C1_ExactlyOneNotice ==
  \A n \in LeafNodes :
    (n \in seenNonTerminal /\ n \in seenTerminal) => notices[n] = 1

\* C2: a poll invokes the event callback exactly once for a workflow whose
\* version token differs from the cached one and not at all for a workflow
\* whose token equals it, however many of its nodes completed.
C2_OneEventPerChange ==
  polled.done =>
    \A i \in DOMAIN polled.items :
      LET wf == polled.items[i]
      IN HasIdentity(wf) =>
           EventsFor(wf.name) =
             (IF wf.resourceVersion # polled.before[wf.name] THEN 1 ELSE 0)

\* C3: the continuation of a fetch that stop() aborted invokes no callback:
\* no handler delivers the AbortError, or anything else, after stop()
\* has returned.
C3_AbortedFetchIsSilent ==
  \A k \in DOMAIN delivered :
    delivered[1].type = "abort" => ~delivered[k].afterStop

\* C4: once stop() has returned inside the event callback, no event of the
\* poll being delivered and no event of a later poll is delivered.
C4_NoEventAfterStopInCallback ==
  \A k \in DOMAIN delivered :
    delivered[k].cb = "event" => ~delivered[k].afterStop

\* C5: a call of stop() on a session that is already stopped changes
\* nothing of the session and invokes no callback; in a stopped session
\* everything stop() sets is already set.
C5_StopIsIdempotent ==
  /\ [][(stopped /\ Stop) =>
          (UNCHANGED <<progVars, runVars>> /\ delivered' = <<>>)]_vars
  /\ [](stopped => (~isFetching /\ aborted /\ hbTimer = "cleared"
                      /\ connTimer # "pending"))

C5_Witness == stopCalls = 2 /\ delivered = <<>> /\ fetching + parsing = 0

\* C6: after stop() has returned no heartbeat and no connection timeout is
\* delivered, and a poll timer that fires returns without a fetch and
\* without a new timer.
C6_TimersDeadAfterStop ==
  /\ \A k \in DOMAIN delivered :
       delivered[k].afterStop =>
         /\ delivered[k].cb # "heartbeat"
         /\ delivered[k].type # "timeout"
  /\ tick.afterStop => tick.did = "returned"

C6_Witness == stopped /\ tick.afterStop /\ tick.did = "returned"

\* C7: the event for a workflow that is not in the cache has type ADDED,
\* the event for a cached workflow whose token changed has type MODIFIED,
\* and a workflow whose token equals the cached one gets no event.
C7_AddedThenModified ==
  polled.done =>
    /\ \A k \in DOMAIN delivered :
         delivered[k].cb = "event" =>
           delivered[k].type =
             (IF polled.before[delivered[k].wf] = NoVersion
              THEN "ADDED" ELSE "MODIFIED")
    /\ \A i \in DOMAIN polled.items :
         LET wf == polled.items[i]
         IN (HasIdentity(wf) /\ wf.resourceVersion = polled.before[wf.name])
              => EventsFor(wf.name) = 0

\* C8: every poll that returns a workflow without a version token delivers
\* a MODIFIED event for that workflow.
C8_MissingTokenIsModified ==
  polled.done =>
    \A i \in DOMAIN polled.items :
      LET wf == polled.items[i]
      IN (wf.name # "" /\ wf.resourceVersion = NoVersion) =>
           \E k \in DOMAIN delivered :
             /\ delivered[k].cb = "event"
             /\ delivered[k].wf = wf.name
             /\ delivered[k].type = "MODIFIED"

\* C9: the polling interval is never below 1000 and never above 10000.
C9_IntervalInBounds ==
  /\ ~Below(refreshInterval, MinIntervalMs)
  /\ ~Above(refreshInterval, MaxIntervalMs)

\* the ceiling has been applied: a run of unchanged polls reached it
C9_Witness == polled.done /\ refreshInterval = Whole(MaxIntervalMs)

\* C10: the delay of the retry after a failed fetch is never above 10000.
C10_RetryDelayCapped ==
  lastTimeout.kind = "retry" => ~Above(lastTimeout.delay, MaxIntervalMs)

\* what the handler that led to the state delivered
Reported(type) == \E k \in DOMAIN delivered : delivered[k].type = type
CaughtHere ==
  /\ delivered # <<>>
  /\ delivered[1].cb = "error"
  /\ delivered[1].type # "timeout"

\* C11: a handler delivers the exhaustion notice exactly when it is the
\* catch of a failure and 5 fetches have failed since the last fetch that
\* succeeded (or since the start).
C11_ExhaustedAtFiveFailedFetches ==
  Reported("exhausted") <=> (CaughtHere /\ failedFetches = MAX_ERRORS)

\* C12: once a fatal notification (exhaustion or timeout) has been
\* delivered, no tick starts a fetch.
C12_NoFetchAfterFatal == tick.did = "fetch" => fatals = 0

\* a poll timer fired after the fatal notification and returned at once
C12_Witness == fatals > 0 /\ tick.did = "returned" /\ ~stopped

\* C13: a session delivers at most one fatal notification, and after the
\* timeout notification no other error.
C13_AtMostOneFatal ==
  /\ fatals <= 1
  /\ CaughtHere => connTimer # "fired"

\* C14: after the connection timeout has fired no event is delivered, also
\* not by the fetch that was outstanding when it fired.
C14_NoEventAfterTimeout ==
  connTimer = "fired" =>
    \A k \in DOMAIN delivered : delivered[k].cb # "event"

\* C15: the handler of a fetch that was answered with 401 ends the
\* session: it leaves isFetching false and no poll timer pending, so that
\* no further fetch is issued.
C15_AuthFailureNotRetried ==
  (CaughtHere /\ delivered[1].type = "http401") =>
    (~isFetching /\ pollTimers = 0)

\* C16: the catch of a malformed body delivers the parse error and nothing
\* else (no exhaustion notice), and a session that is still fetching has
\* its next poll scheduled.
C16_MalformedBodyKeepsPolling ==
  (CaughtHere /\ delivered[1].type = "parse") =>
    /\ Len(delivered) = 1
    /\ errorCount < MAX_ERRORS
    /\ isFetching => (pollTimers = 1 /\ lastTimeout.kind = "retry")

\* more malformed bodies in a row than the error budget, and still polling
C16_Witness ==
  /\ malformed = MaxMalformed
  /\ CaughtHere /\ delivered[1].type = "parse"
  /\ isFetching /\ pollTimers = 1

\* C17: at most one fetch of the session is outstanding (awaiting its
\* response or its body), at most one poll timer is pending, and a tick
\* that starts a fetch finds no other outstanding.
C17_FetchesAreSerial ==
  /\ fetching + parsing <= 1
  /\ pollTimers <= 1
  /\ tick.did = "fetch" => (fetching = 1 /\ parsing = 0 /\ pollTimers = 0)

\* a tick after the first poll deferred itself, and a later one fetched
C17_Witness == polls >= 1 /\ tick.did = "fetch" /\ lastTimeout.kind = "defer"

LiveSession(s) ==
  \/ sessions[s].hbTimer = "active"
  \/ sessions[s].connTimer = "pending"
  \/ sessions[s].chain # "idle"

\* C18: at most one session of the client has a live timer or fetch, and
\* at most one EventSource of the watcher is open.
C18_SingleOwner ==
  /\ Cardinality({s \in DOMAIN sessions : LiveSession(s)}) <= 1
  /\ Cardinality(sources) <= 1

\* C19: every poll of every session has delivered the events, and left
\* the cache, the processed set and the interval, that the same polls would
\* have given a session alone on the client; a session that has not polled
\* has an empty cache and an empty processed set.
C19_SessionsAreIsolated ==
  \A s \in DOMAIN sessions :
    /\ trace[s].out = trace[s].aloneOut
    /\ sessions[s].latestResourceVersions = trace[s].alone.cache
    /\ sessions[s].processedNodes = trace[s].alone.processed
    /\ sessions[s].refreshInterval = trace[s].alone.interval
    /\ trace[s].polls = 0 =>
         /\ sessions[s].latestResourceVersions = NoCache
         /\ sessions[s].processedNodes = {}

\* two sessions live at once, both have delivered, and their caches differ
C19_Witness ==
  /\ Len(sessions) = 2
  /\ LiveSession(1) /\ LiveSession(2)
  /\ trace[1].out # <<>> /\ trace[2].out # <<>>
  /\ sessions[1].latestResourceVersions # sessions[2].latestResourceVersions

\* C20: a leaf node that a poll shows in phase Error (in a snapshot that
\* carries the name and the version token of its workflow) has caused
\* exactly one completion notification.
C20_ErrorIsNotified ==
  polled.done =>
    \A i \in DOMAIN polled.items :
      HasIdentity(polled.items[i]) =>
        \A j \in DOMAIN polled.items[i].nodes :
          LET node == polled.items[i].nodes[j]
          IN (IsLeaf(node) /\ node.phase = "Error") => notices[node.id] = 1

\* C21: in every state of a session that is running (not stopped, no fatal
\* notification delivered) the heartbeat period can elapse and deliver a
\* heartbeat, whatever the state of the fetch chain and the error count.
C21_HeartbeatWhileRunning ==
  (isFetching /\ ~stopped) => (hbTimer = "active" /\ ENABLED Heartbeat)

\* a heartbeat delivered while a fetch is outstanding after a failed one
C21_Witness ==
  /\ Reported("HEARTBEAT")
  /\ isFetching /\ ~stopped
  /\ fetching = 1 /\ errorCount >= 1

\* C22: once a fatal notification (exhaustion or timeout) has been
\* delivered, no heartbeat is delivered.
C22_NoHeartbeatWhenDead == fatals > 0 => ~Reported("HEARTBEAT")

\* C29: when a poll delivers its events no other fetch of the session is
\* outstanding, neither an earlier one whose events would come later nor a
\* later one whose events could have come first: the polls deliver in the
\* order of their ticks.
C29_EventsInTickOrder == polled.done => (fetching = 0 /\ parsing = 0)

\* the second poll has delivered events
C29_Witness == polled.done /\ polls >= 2 /\ delivered # <<>>

\* C23: a succeeded node whose structured output parameters hold a
\* non-empty output-data value shows that value as its output, whatever
\* its log holds and whether or not the log can be fetched.
C23_StructuredValueWins ==
  (/\ nodePhase[ViewNode] = "Succeeded"
   /\ StructuredValue(input.params, 1, "") # ""
   /\ taskOutputs[ViewNode] # Unset)
    => taskOutputs[ViewNode] = Value(StructuredValue(input.params, 1, ""))

\* C24: a succeeded node without a structured output-data value whose log
\* is empty, lacks the marker or cannot be fetched has no output recorded:
\* no value and no error text.
C24_UnknownWhenNothingYields ==
  (/\ nodePhase[ViewNode] = "Succeeded"
   /\ StructuredValue(input.params, 1, "") = "")
    => /\ taskOutputs[ViewNode].kind \notin {"logerror", "failure"}
       /\ OutputMatch(input.log) = "" => taskOutputs[ViewNode] = Unset

\* C25: when the first poll shows the leaf node Running and the second
\* poll shows it, under another version token, Succeeded with the
\* structured output initial-data-processed, the second poll delivers
\* exactly one MODIFIED event and exactly one completion notification for
\* the node, and the output shown is initial-data-processed.
C25_EndToEnd ==
  (/\ Len(viewPolls) = 2
   /\ viewPolls[1].phase = "Running"
   /\ viewPolls[2].phase = "Succeeded"
   /\ viewPolls[1].version # viewPolls[2].version
   /\ StructuredValue(input.params, 1, "") = "initial-data-processed")
    => /\ Cardinality({k \in DOMAIN events : events[k].type = "MODIFIED"}) = 1
       /\ Cardinality({k \in DOMAIN events : events[k].node = ViewNode}) = 1
       /\ taskOutputs[ViewNode] = Value("initial-data-processed")

\* the tasks a task depends on, directly or through at most n other tasks
RECURSIVE Upstream(_, _)
Upstream(t, n) ==
  IF n = 0 THEN dag.deps[t]
  ELSE LET r == Upstream(t, n - 1)
       IN r \cup UNION {dag.deps[u] : u \in r}

Acyclic ==
  \A t \in dag.tasks : t \notin Upstream(t, Cardinality(dag.tasks))

Before(s, i) == {s[j] : j \in 1..(i - 1)}

\* C26: for an acyclic dependency graph resolve returns a permutation of
\* the task names in which every task comes after the tasks it depends on
\* and, at every position, no task that was ready there has a smaller name
\* than the task emitted.
C26_OrderIsTopologicalAndSmallestFirst ==
  (result.kind # "none" /\ Acyclic) =>
    /\ result.kind = "order"
    /\ Len(result.order) = Cardinality(dag.tasks)
    /\ Elems(result.order) = dag.tasks
    /\ \A i \in DOMAIN result.order :
         /\ dag.deps[result.order[i]] \subseteq Before(result.order, i)
         /\ \A u \in dag.tasks \ Before(result.order, i) :
              dag.deps[u] \subseteq Before(result.order, i)
                => Rank(result.order[i]) <= Rank(u)

\* A depends on C, B and C on nothing: B and C are ready first, A becomes
\* ready when C is emitted
C26_Witness ==
  /\ result.kind = "order"
  /\ result.order = <<"B", "C", "A">>
  /\ dag.deps["A"] = {"C"}

C28_PresentedInDependencyOrder ==
  rendered # <<>> =>
    IF Acyclic
    THEN \A i \in DOMAIN rendered :
           dag.deps[rendered[i]] \subseteq Before(rendered, i)
    ELSE rendered = Sorted(dag.tasks)

\* C30: a terminal update received by a stream of the watcher is delivered
\* through onUpdate and followed by onClose; the stream has then had
\* exactly one onClose call, is closed, and onUpdate is never called for
\* it again.
C30_TerminalUpdateCompletes ==
  /\ dispatch.data \in TerminalPhases =>
       /\ dispatch.calls = <<"onUpdate", "onClose">>
       /\ dispatch.source \notin sources
  /\ \A id \in DOMAIN streams :
       streams[id].terminal =>
         /\ streams[id].closes = 1
         /\ id \notin sources
         /\ ~streams[id].late

\* a stream completed with Failed, and the watcher has been watching
\* another workflow since and has delivered an update of it
C30_Witness ==
  /\ Len(streams) >= 2
  /\ streams[1].terminal /\ streams[1].last = "Failed"
  /\ streams[2].last = "Running"
  /\ 2 \in sources

\* C31: a stream of the watcher is closed only by a later watch() call, by
\* the function its own watch() call returned, or by the handling of its
\* own terminal update; a stream opened during a step is open after it.
C31_ClosedOnlyByItsOwnActions ==
  [][/\ watches' > watches => watches' \in sources'
     /\ \A k \in sources \ sources' :
          watches' > watches \/ dispatch'.source = k]_vars

\* C32: when the event callback throws during a delivery, the version
\* cache is not advanced for the workflow whose callback threw and the
\* processed set does not hold the node whose notification threw, so that
\* a later poll delivers them again.
C32_ThrownChangeIsKept ==
  \A k \in DOMAIN delivered :
    (delivered[k].cb = "error" /\ delivered[k].type = "thrown") =>
      /\ latestResourceVersions[delivered[k - 1].wf]
           = polled.before[delivered[k - 1].wf]
      /\ delivered[k - 1].node \notin processedNodes \ {"-"}

\* C33: after a poll, every leaf node that its snapshot shows in a terminal
\* phase has had its completion notification, also when the workflow has
\* the version token that was cached before the poll.
C33_UnchangedSnapshotIsInspected ==
  polled.done =>
    \A i \in DOMAIN polled.items :
      LET wf == polled.items[i]
      IN (HasIdentity(wf) /\ wf.resourceVersion = polled.before[wf.name]) =>
           \A j \in DOMAIN wf.nodes :
             (IsLeaf(wf.nodes[j]) /\ wf.nodes[j].phase \in TerminalPhases)
               => notices[wf.nodes[j].id] >= 1

\* C34: only leaf nodes in a terminal phase have had a completion
\* notification or are in the processed set: never a DAG node, never a
\* leaf that is Pending or Running.
C34_OnlyTerminalLeavesAreNotified ==
  /\ \A n \in Nodes :
       (notices[n] > 0 \/ n \in processedNodes) =>
         (n \in LeafNodes /\ nodePhase[n] \in TerminalPhases)
  /\ \A k \in DOMAIN delivered :
       (delivered[k].cb = "event" /\ delivered[k].node # "-") =>
         delivered[k].node \in LeafNodes

\* a poll has shown a succeeded DAG node, a running leaf and a finished
\* leaf, and only the last is processed
C34_Witness ==
  /\ polled.done
  /\ nodePhase["n2"] = "Succeeded"
  /\ nodePhase["n3"] = "Running" /\ "n3" \in seenNonTerminal
  /\ latestResourceVersions["wf1"] = rv["wf1"]
  /\ processedNodes = {"n1"}
\* C35: a running session never stalls.  Whenever the session is running
\* (neither stopped nor failed) and no fetch is outstanding, that is after
\* every fetch that has completed, with its body delivered or with a
\* failure below the budget, a fetch is started later on, or the session is
\* stopped or fails.
C35_NeverStalls ==
  (isFetching /\ fetching = 0 /\ parsing = 0) ~> (fetching > 0 \/ ~isFetching)

\* a fetch has failed below the budget and the fetch that follows it has
\* been started by the retry timer
C35_Witness ==
  /\ isFetching
  /\ errorCount > 0
  /\ lastTimeout.kind = "retry"
  /\ tick.did = "fetch"
  /\ fetching = 1

\* C36: a fetch that fails at the transport level (the fetch rejects, or
\* resolves with a status that is not OK) leaves the polling interval, the
\* version cache and the processed-node set as they were and adds one to
\* the consecutive-error counter.
C36_FailedFetchKeepsSessionState ==
  [][failedFetches' = failedFetches + 1 =>
       /\ refreshInterval' = refreshInterval
       /\ latestResourceVersions' = latestResourceVersions
       /\ processedNodes' = processedNodes
       /\ errorCount' = errorCount + 1]_vars

\* a fetch has failed with a status that is not OK in a session whose
\* interval has moved, whose cache holds a token and whose processed set
\* holds a node
C36_Witness ==
  /\ failedFetches = 1
  /\ Len(delivered) = 1
  /\ delivered[1].type = "http500"
  /\ refreshInterval # Whole(InitialInterval)
  /\ latestResourceVersions[Workflows[1]] # NoVersion
  /\ processedNodes # {}

\* C37: the Timeout condition is delivered only while no fetch of the
\* session has succeeded: at the handler that delivers it no snapshot has
\* been delivered and no OK response is waiting for its body, whatever the
\* order of the timeout timer and the fetch completions.
C37_TimeoutOnlyBeforeSuccess ==
  [][(/\ delivered' # delivered
      /\ \E k \in DOMAIN delivered' : delivered'[k].type = "timeout")
     => (polls = 0 /\ parsing = 0)]_vars

\* a fetch succeeded while the timeout was pending, which disarmed it, and
\* a later fetch has failed
C37_Witness ==
  /\ polls > 0
  /\ connTimer = "cleared"
  /\ failedFetches > 0
  /\ fatals = 0

\* a <= b for two intervals (the denominators are powers of 5)
AtMost(a, b) ==
  LET g == GCD(a.den, b.den)
  IN a.num * (b.den \div g) <= b.num * (a.den \div g)

\* C38: the interval moves monotonically with the outcome of a poll.  A
\* poll that delivers no change never decreases it, keeps it at or below
\* 10000 and multiplies it by at least 1.2 unless that brings it to 10000;
\* a poll that delivers a change never increases it, keeps it at or above
\* 1000 and multiplies it by at most 0.8 unless that brings it to 1000.  So
\* an unbroken run of unchanged polls reaches 10000 (nine polls from 2000)
\* and stays there, and an unbroken run of changed polls reaches 1000 and
\* stays there.
C38_IntervalMovesMonotonically ==
  [][(polled'.done /\ polls' = polls + 1) =>
       LET r == refreshInterval
           s == refreshInterval'
       IN /\ delivered' = <<>> =>
               /\ AtMost(r, s)
               /\ AtMost(s, Whole(MaxIntervalMs))
               /\ s = Whole(MaxIntervalMs) \/ AtMost(Times(r, 6, 5), s)
               /\ (rv[Workflows[1]] = NoVersion /\ polls' >= 9)
                    => s = Whole(MaxIntervalMs)
          /\ delivered' # <<>> =>
               /\ AtMost(s, r)
               /\ AtMost(Whole(MinIntervalMs), s)
               /\ s = Whole(MinIntervalMs) \/ AtMost(s, Times(r, 4, 5))]_vars

\* four polls, each of which delivered a change, have brought the interval
\* from 2000 to the floor
C38_Witness ==
  /\ polled.done
  /\ delivered # <<>>
  /\ polls = 4
  /\ refreshInterval = Whole(MinIntervalMs)

\* C39: in both push variants a message that is empty, that cannot be
\* parsed or that lacks result.object.metadata is skipped: its handler
\* calls no callback (neither the update nor the error callback), leaves
\* the stream open and the object as it was, and every open stream still
\* delivers a valid message to the update callback.
C39_BadMessagesAreSkipped ==
  /\ [][(dispatch' # dispatch /\ dispatch'.data \in SkippedData) =>
          /\ dispatch'.calls = <<>>
          /\ dispatch'.source \in sources'
          /\ UNCHANGED <<eventSource, sources, watches, streams>>]_vars
  /\ [][(/\ eventStream'.handled # eventStream.handled
         /\ eventStream'.handled.data \in SkippedData) =>
          /\ eventStream'.handled.calls = <<>>
          /\ eventStream'.handled.source \in eventStream'.sources
          /\ eventStream'.sources = eventStream.sources
          /\ eventStream'.eventSource = eventStream.eventSource]_vars
  /\ [](\A id \in sources :
          ENABLED (/\ OnMessage(id, "Running", "none", "none")
                   /\ dispatch'.calls = <<"onUpdate">>))
  /\ [](\A id \in eventStream.sources :
          ENABLED (/\ EventStreamOnMessage(id, "Running")
                   /\ eventStream'.handled.calls = <<"onEvent">>))

\* the watcher has skipped a message it could not parse on a stream that
\* had delivered an update before, the event stream has skipped one
\* without metadata, and both streams are open
C39_Witness ==
  /\ dispatch.data = "garbage"
  /\ dispatch.source \in sources
  /\ streams[dispatch.source].last = "Running"
  /\ eventStream.handled.data = "nometa"
  /\ eventStream.handled.source \in eventStream.sources

\* the workflows of a listing that have a name, in list order
Named(items) == SelectSeq(items, LAMBDA x : x # "")
Count(errors, kind) == Cardinality({k \in DOMAIN errors : errors[k] = kind})

\* C40: deleteAllWorkflows attempts every listed workflow in order and
\* always returns its result.  While a delete is awaited, a DELETE has been
\* sent for every named workflow up to it, in list order, and every
\* workflow before it is counted once, as deleted or by one error entry.
\* On return either the listing failed, and errors holds that single entry
\* with nothing deleted and nothing attempted, or every named workflow of
\* the listing was attempted in order, deleted + errors.length is the
\* number listed, and there is one entry for each workflow without a name.
C40_EveryListedWorkflowIsAttempted ==
  LET d == deletion
  IN /\ d.stage = "deleting" =>
          /\ d.attempts = Named(SubSeq(d.items, 1, d.next))
          /\ d.deleted + Len(d.errors) = d.next - 1
     /\ d.stage = "returned" =>
          \/ /\ d.errors = <<"failed to list or delete">>
             /\ d.deleted = 0
             /\ d.attempts = <<>>
          \/ /\ d.attempts = Named(d.items)
             /\ d.deleted + Len(d.errors) = Len(d.items)
             /\ Count(d.errors, "missing name") = Len(d.items) - Len(d.attempts)
             /\ Count(d.errors, "failed to list or delete") = 0

\* of three listed workflows the first could not be deleted, the second
\* has no name and the third was deleted
C40_Witness ==
  /\ deletion.stage = "returned"
  /\ deletion.items = <<"wf1", "", "wf2">>
  /\ deletion.errors = <<"failed to delete", "missing name">>
  /\ deletion.deleted = 1
  /\ deletion.attempts = <<"wf1", "wf2">>

====
